---- MODULE Spec2Model ----
(***************************************************************************)
(* A model of the Tavily auto-registration tool.                           *)
(*                                                                         *)
(*   Spec        TavilyAutoRegister.start(): the registration run, from    *)
(*               browser start to the finally block that closes it.        *)
(*   SpecMail    the mail pollers (HTTP temp-mail API and IMAP) and their  *)
(*               callers.                                                  *)
(*   SpecExtract the verification-code regular expression, as a matcher.   *)
(*   SpecPwd     generate_password().                                      *)
(*   SpecEmail   generate_email().                                         *)
(*   SpecCaptcha CaptchaHandler.verify_captcha(), round by round.          *)
(***************************************************************************)
EXTENDS Integers, Sequences, FiniteSets, TLC

(***************************************************************************)
(* Bounds of the model.                                                    *)
(***************************************************************************)
MaxRuns == 2
MaxCaptchaRounds == 3
MaxRetries == 3
MaxMsgs == 2
MaxTokens == 4
MaxRotate == 2
MaxOcrLen == 2
MaxElemCalls == 4
MaxMailCalls == 2

VARIABLES
    \* ---- TavilyAutoRegister.start() ----
    run,            \* number of the run of the program (stands for created_at)
    pc,             \* position of start()
    page,           \* BrowserUtils.page: "none", "open", "quit"
    tempDir,        \* does ./temp_browser_data exist
    fileExists,     \* does ./accounts.csv exist
    accounts,       \* the rows of accounts.csv
    email,          \* local variable email of start()
    password,       \* local variable password of start()
    configPassword, \* self.config.PASSWORD
    apiKey,         \* local variable api_key of start()
    ret,            \* the value start() is returning: "none", "true", "false"
    calls,          \* the phases start() invoked in this run, in order
    failedAt,       \* the phase that failed in this run, "none" if none did
    keyQueries,     \* fetch('/api/keys') calls made in this run
    captchaAttempts,\* CaptchaHandler.captcha_attempts
    saveOutcome,    \* how far the write of _save_account_info got in this run
    runLog,         \* one entry per finished call of start(): what it returned
    typedEmail,     \* the text input into the email field in this run
    typedPassword,  \* the text input into the password field in this run
    keyData,        \* the JSON list the keys endpoint answered in this run
    \* ---- the mail pollers and their callers ----
    backend,        \* "http": EmailVerificationHandler, "imap": EmailHandler
    mpc,            \* position of get_verification_code and of its caller
    maxRetries,     \* parameter max_retries
    attempt,        \* loop variable attempt
    sleeps,         \* time.sleep(retry_interval) calls made
    mailbox,        \* the messages of the mailbox, newest first
    delivered,      \* messages delivered so far (the newest message's id)
    pollLog,        \* one entry per poll: what the mailbox held, what came back
    delLog,         \* the DELETE requests issued, with their answers
    result,         \* what get_verification_code returned
    source,         \* id of the message the returned code was taken from
    imapMail,       \* EmailHandler.mail: "none", "unauth", "auth"
    mailCall,       \* which call of get_verification_code on the handler
    connectFailed,  \* connect() failed in this call
    callerResult,   \* what the caller returned: "none", "true", "false"
    typed,          \* the code the caller typed into the page
    \* ---- the code extractor on its own ----
    xpc,            \* "input", then "done"
    body,           \* the mail body given to the extractor
    extracted,      \* what the extractor returned
    imapExtracted,  \* what the extractor of the IMAP poller returned
    \* ---- generate_password() ----
    gpc,            \* position of generate_password
    pw,             \* its local variable password, a list of characters
    \* ---- generate_email() ----
    epc,            \* position of generate_email
    configDomain,   \* config.DOMAIN, a list of characters
    username,       \* its local variable username
    address,        \* the address it returned
    \* ---- CaptchaHandler.verify_captcha() on its own ----
    cpc,            \* "loop" while the while True loop runs, then "done"
    captcha_attempts,     \* self.captcha_attempts
    steps,          \* the steps the last round went through, in order
    ocrStatus,      \* last round: "none", "text" (OCR answered), "failed"
    ocrResult,      \* last round: result, the raw OCR output
    filtered_result,\* last round: what the filter left of it
    warnings,       \* last round: the warnings _recognize_captcha logged
    inputArg,       \* last round: the text handed to _input_captcha
    field,          \* the content of the captcha input field
    submitted,      \* last round: was the form submitted, and with what
    domError,       \* last round's page check: a visible error banner
    domPassword,    \* last round's page check: a visible password field
    lastOutcome,    \* how the last round ended
    vret,           \* what verify_captcha returned: "none", "true", "false"
    \* ---- the form fills of _fill_registration_form ----
    fpc,            \* the fill that comes next: "email", "captcha", "password"
    content,        \* what each field of the page holds
    elemCalls,      \* the clear() and input() calls made on the fields
    pwCall,         \* what the call of handle_password_input met and did
    formRet,        \* what _fill_registration_form returned
    \* ---- two runs in one working directory ----
    rpc,            \* where each of the two runs is
    profileDir,     \* temp_browser_data: 0 if absent, else the run that made it
    inUse,          \* the runs whose browser is running on temp_browser_data
    sawFile,        \* file_exists of each run's _save_account_info
    csvExists,      \* accounts.csv exists
    csvRows,        \* its rows: 0 for a header, r for the data row of run r
    written,        \* the runs whose write to accounts.csv has completed
    \* ---- Config() ----
    kpc,            \* "construct" before Config(), "done" after
    env,            \* the environment after load_dotenv()
    cfgOutcome      \* how the construction ended

orchVars == <<run, pc, page, tempDir, fileExists, accounts, email, password,
              configPassword, apiKey, ret, calls, failedAt, keyQueries,
              captchaAttempts, saveOutcome, runLog, typedEmail,
              typedPassword, keyData>>

mailVars == <<backend, mpc, maxRetries, attempt, sleeps, mailbox, delivered,
              pollLog, delLog, result, source, imapMail, mailCall, connectFailed,
              callerResult, typed>>

extractVars == <<xpc, body, extracted, imapExtracted>>

pwdVars == <<gpc, pw>>

emailVars == <<epc, configDomain, username, address>>

captchaVars == <<cpc, captcha_attempts, steps, ocrStatus, ocrResult,
                 filtered_result, warnings, inputArg, field, submitted,
                 domError, domPassword, lastOutcome, vret>>

formVars == <<fpc, content, elemCalls, pwCall, formRet>>

concVars ==
    <<rpc, profileDir, inUse, sawFile, csvExists, csvRows, written>>

configVars == <<kpc, env, cfgOutcome>>

vars == <<orchVars, mailVars, extractVars, pwdVars, emailVars, captchaVars,
          formVars, concVars, configVars>>

\* What each part of the program leaves alone.
notOrch ==
    <<mailVars, extractVars, pwdVars, emailVars, captchaVars, formVars,
      concVars, configVars>>
notMail ==
    <<orchVars, extractVars, pwdVars, emailVars, captchaVars, formVars,
      concVars, configVars>>
notExtract ==
    <<orchVars, mailVars, pwdVars, emailVars, captchaVars, formVars,
      concVars, configVars>>
notPwd ==
    <<orchVars, mailVars, extractVars, emailVars, captchaVars, formVars,
      concVars, configVars>>
notEmail ==
    <<orchVars, mailVars, extractVars, pwdVars, captchaVars, formVars,
      concVars, configVars>>
notForm ==
    <<orchVars, mailVars, extractVars, pwdVars, emailVars, captchaVars,
      concVars, configVars>>
notConc ==
    <<orchVars, mailVars, extractVars, pwdVars, emailVars, captchaVars,
      formVars, configVars>>
notConfig ==
    <<orchVars, mailVars, extractVars, pwdVars, emailVars, captchaVars,
      formVars, concVars>>
notCaptcha ==
    <<orchVars, mailVars, extractVars, pwdVars, emailVars, formVars,
      concVars, configVars>>

(***************************************************************************)
(* Values.                                                                 *)
(***************************************************************************)
NoValue == "none"

\* generate_email() / generate_password() results, drawn from a small sample.
Emails == {"Ab3dE6gH@dom.ain", "zY8xW7vU@dom.ain"}
Passwords == {"aZ5#aZ5#aZ5#", "#5Za#5Za#5Za"}

\* An entry of the keys endpoint's JSON: its key is a prefix and a rest.
KeyPrefix == "tvly-"
GoodKey1 == [prefix |-> "tvly-", rest |-> "k1"]
GoodKey2 == [prefix |-> "tvly-", rest |-> "k2"]
BadKey == [prefix |-> "sk-", rest |-> "k3"]
EmptyKey == [prefix |-> "", rest |-> ""]
NoKey == [prefix |-> "", rest |-> "null"]

\* What fetch('/api/keys') can answer: a JSON list, or a failure of the fetch.
KeyResponses ==
    { <<>>, <<GoodKey1>>, <<GoodKey2>>, <<BadKey>>, <<EmptyKey>>,
      <<BadKey, GoodKey1>>, <<GoodKey1, BadKey>> }

\* The header row (its labels are written in Chinese in the source).
HeaderRow == [kind |-> "header", email |-> "email", password |-> "password",
              api_key |-> NoKey, created_at |-> 0]

DataRow(e, p, k, t) == [kind |-> "data", email |-> e, password |-> p,
                        api_key |-> k, created_at |-> t]


(***************************************************************************)
(* The code extractor: re.search(r"(?<![a-zA-Z@.])\b\d{6}\b", mail_text),  *)
(* on a text given as the sequence of its characters.                      *)
(***************************************************************************)
CodeLen == 6

Digits == {"0", "1", "2", "3", "4", "5", "6", "7", "8", "9"}

Letters ==
    {"a", "b", "c", "d", "e", "f", "g", "h", "i", "j", "k", "l", "m", "n",
     "o", "p", "q", "r", "s", "t", "u", "v", "w", "x", "y", "z",
     "A", "B", "C", "D", "E", "F", "G", "H", "I", "J", "K", "L", "M", "N",
     "O", "P", "Q", "R", "S", "T", "U", "V", "W", "X", "Y", "Z"}

\* \w of the regular expression engine.
WordChars == Letters \cup Digits \cup {"_"}

\* re.search finding nothing (a match of this pattern is never empty).
NoMatch == <<>>

IsWordAt(s, i) == i \in 1..Len(s) /\ s[i] \in WordChars

\* \b just before position i: exactly one side is a word character.
WordBoundary(s, i) == IsWordAt(s, i - 1) # IsWordAt(s, i)

\* \d{6} at position i.
DigitsAt(s, i) ==
    /\ i + CodeLen - 1 <= Len(s)
    /\ \A k \in i..(i + CodeLen - 1) : s[k] \in Digits

\* (?<![a-zA-Z@.]) at position i.
LookbehindOk_None(s, i) == TRUE

LookbehindOk(s, i) == i = 1 \/ s[i - 1] \notin (Letters \cup {"@", "."})

\* The pattern of _get_latest_mail_code matches at position i.
MatchAt(s, i) ==
    /\ LookbehindOk(s, i)
    /\ WordBoundary(s, i)
    /\ DigitsAt(s, i)
    /\ WordBoundary(s, i + CodeLen)

\* The pattern of EmailHandler.get_verification_code, r'\b\d{6}\b'.
ImapMatchAt(s, i) ==
    /\ WordBoundary(s, i)
    /\ DigitsAt(s, i)
    /\ WordBoundary(s, i + CodeLen)

Least(S) == CHOOSE i \in S : \A j \in S : i <= j

\* re.search(...).group(): the match that starts leftmost.
SearchCode(s) ==
    LET starts == {i \in 1..Len(s) : MatchAt(s, i)} IN
    IF starts = {} THEN NoMatch
    ELSE SubSeq(s, Least(starts), Least(starts) + CodeLen - 1)

ImapSearchCode(s) ==
    LET starts == {i \in 1..Len(s) : ImapMatchAt(s, i)} IN
    IF starts = {} THEN NoMatch
    ELSE SubSeq(s, Least(starts), Least(starts) + CodeLen - 1)

\* The pieces the sample mail bodies are put together from.
Tokens ==
    { <<"7", "2", "8", "1", "9", "3">>, <<"4", "8", "2", "9", "1", "3">>,
      <<"5", "6">>, <<"i", "d">>, <<"@">>, <<".">>, <<"_">>, <<" ">>,
      <<":">> }

RECURSIVE Flatten(_)
Flatten(ts) == IF ts = <<>> THEN <<>> ELSE Head(ts) \o Flatten(Tail(ts))

Bodies ==
    { Flatten(ts) : ts \in UNION { [1..n -> Tokens] : n \in 0..MaxTokens } }

ExtractInit ==
    /\ xpc = "input"
    /\ body \in Bodies
    /\ extracted = NoMatch
    /\ imapExtracted = NoMatch

ExtractIdle ==
    /\ xpc = "idle"
    /\ body = <<>>
    /\ extracted = NoMatch
    /\ imapExtracted = NoMatch

\* The extractors of both pollers are applied to the body.
Extract ==
    /\ xpc = "input"
    /\ xpc' = "done"
    /\ extracted' = SearchCode(body)
    /\ imapExtracted' = ImapSearchCode(body)
    /\ UNCHANGED body
    /\ UNCHANGED notExtract


(***************************************************************************)
(* The mail pollers.                                                       *)
(*   "http": EmailVerificationHandler (core/email_verify.py)               *)
(*   "imap": EmailHandler (email_handler.py)                               *)
(***************************************************************************)
CleanupMaxRetries == 3

\* Bodies of the messages the model delivers.
MailBodies ==
    { <<"7", "2", "8", "1", "9", "3">>,
      <<"h", "i">>,
      <<"i", "d", "1", "2", "3", "4", "5", "6", "7", "8">> }

\* Answers of the mail API: a status 200, another status, or an exception
\* raised by the request.
DelOutcomes == {"200", "500", "exc"}

\* `for attempt in range(max_retries)`
LoopContinues_OneMore(a, m) == a <= m

LoopContinues(a, m) == a < m

\* `if attempt < max_retries - 1: time.sleep(retry_interval)`
SleepsAfter_Always(a, m) == TRUE

SleepsAfter(a, m) == a < m - 1

\* _cleanup_mail(mail_id): the DELETE requests it issues when the API answers
\* resps[i] to the i-th of them, from the i-th on.
RECURSIVE CleanupFrom(_, _, _)
CleanupFrom(i, id, resps) ==
    IF i > CleanupMaxRetries THEN <<>>
    ELSE IF resps[i] = "200" THEN << [id |-> id, resp |-> "200"] >>
    ELSE << [id |-> id, resp |-> resps[i]] >> \o CleanupFrom(i + 1, id, resps)

CleanupMail_NoStop(id, resps) ==
    [i \in 1..CleanupMaxRetries |-> [id |-> id, resp |-> resps[i]]]

CleanupMail(id, resps) == CleanupFrom(1, id, resps)

\* The mailbox without the message id.
RECURSIVE Without(_, _)
Without(box, id) ==
    IF box = <<>> THEN <<>>
    ELSE IF Head(box).id = id THEN Without(Tail(box), id)
    ELSE <<Head(box)>> \o Without(Tail(box), id)

Answered200(log) == \E i \in 1..Len(log) : log[i].resp = "200"

\* What the except clause of _get_latest_mail_code does with an exception of
\* a request: "none" returns None, "raise" would let it through.
PollHandler == "none"

\* What the except clause around the loop of the HTTP get_verification_code
\* does with an exception: "none" returns None.
OuterHandler == "none"

\* What the except clause inside the loop of the IMAP get_verification_code
\* does with an exception: "retry" sleeps and goes on, or returns None after
\* the last attempt.
ImapHandler_Raise == "raise"

ImapHandler == "retry"

\* _get_latest_mail_code(): the list request, the content request of
\* mail_list[0], the search, and the cleanup of that message.
\*   code: what it returns; held: the code the mailbox held for it;
\*   err: a request for the list or the content failed; fetched: the ids
\*   whose content was requested; dels: DELETEs issued
GetLatestMailCode_DeleteRead(box, listResp, contentResp, delResps) ==
    LET readable == listResp = "200" /\ box # <<>> /\ contentResp = "200"
        err == listResp # "200" \/ (box # <<>> /\ contentResp # "200")
        raisedIn == listResp = "exc" \/ (listResp = "200" /\ box # <<>>
                                          /\ contentResp = "exc")
        code == IF readable THEN SearchCode(box[1].body) ELSE NoMatch
    IN [code |-> code,
        held |-> code,
        err |-> err,
        raisedIn |-> raisedIn,
        src |-> IF code # NoMatch THEN box[1].id ELSE 0,
        fetched |-> IF listResp = "200" /\ box # <<>> THEN <<box[1].id>>
                    ELSE <<>>,
        dels |-> IF readable THEN CleanupMail(box[1].id, delResps)
                 ELSE <<>>]

GetLatestMailCode(box, listResp, contentResp, delResps) ==
    LET readable == listResp = "200" /\ box # <<>> /\ contentResp = "200"
        err == listResp # "200" \/ (box # <<>> /\ contentResp # "200")
        raisedIn == listResp = "exc" \/ (listResp = "200" /\ box # <<>>
                                          /\ contentResp = "exc")
        code == IF readable THEN SearchCode(box[1].body) ELSE NoMatch
    IN [code |-> code,
        held |-> code,
        err |-> err,
        raisedIn |-> raisedIn,
        src |-> IF code # NoMatch THEN box[1].id ELSE 0,
        fetched |-> IF listResp = "200" /\ box # <<>> THEN <<box[1].id>>
                    ELSE <<>>,
        dels |-> IF code # NoMatch THEN CleanupMail(box[1].id, delResps)
                 ELSE <<>>]

\* A message arrives; the newest message is the first of the list.
Deliver ==
    /\ mpc = "poll"
    /\ delivered < MaxMsgs
    /\ \E b \in MailBodies :
         mailbox' = << [id |-> delivered + 1, body |-> b] >> \o mailbox
    /\ delivered' = delivered + 1
    /\ UNCHANGED <<mailCall, backend, mpc, maxRetries, attempt, sleeps, pollLog, delLog,
                   result, source, imapMail, connectFailed, callerResult,
                   typed>>
    /\ UNCHANGED notMail

\* EmailVerificationHandler.get_verification_code: one turn of its loop.
HttpPoll ==
    /\ backend = "http"
    /\ mpc = "poll"
    /\ LoopContinues(attempt, maxRetries)
    /\ \E listResp \in {"200", "500", "exc"},
          contentResp \in {"200", "500", "exc"},
          delResps \in [1..CleanupMaxRetries -> DelOutcomes] :
         LET poll == GetLatestMailCode(mailbox, listResp, contentResp,
                                       delResps)
             escapes == poll.raisedIn /\ PollHandler = "raise"
         IN
         /\ pollLog' = Append(pollLog,
                [held |-> poll.held, err |-> poll.err, got |-> poll.code,
                 listed |-> mailbox, fetched |-> poll.fetched,
                 dels |-> poll.dels])
         /\ IF escapes
              THEN /\ mpc' = IF OuterHandler = "none" THEN "returned"
                             ELSE "raised"
                   /\ UNCHANGED <<result, source, delLog, mailbox, sleeps,
                                  attempt>>
              ELSE IF poll.code # NoMatch
              THEN /\ result' = poll.code
                   /\ source' = poll.src
                   /\ delLog' = poll.dels
                   /\ mailbox' = IF Answered200(poll.dels)
                                 THEN Without(mailbox, poll.src) ELSE mailbox
                   /\ mpc' = "returned"
                   /\ UNCHANGED <<sleeps, attempt>>
              ELSE /\ sleeps' = IF SleepsAfter(attempt, maxRetries)
                                THEN sleeps + 1 ELSE sleeps
                   /\ attempt' = attempt + 1
                   /\ UNCHANGED <<result, source, delLog, mailbox, mpc>>
    /\ UNCHANGED <<mailCall, backend, maxRetries, delivered, imapMail, connectFailed,
                   callerResult, typed>>
    /\ UNCHANGED notMail

\* EmailHandler.get_verification_code: `if not self.mail: connect()`.
ImapEnter ==
    /\ backend = "imap"
    /\ mpc = "enter"
    /\ IF imapMail = "none"
         THEN \E outcome \in {"ok", "ssl_fail", "login_fail"} :
                /\ imapMail' = CASE outcome = "ok" -> "auth"
                                 [] outcome = "login_fail" -> "unauth"
                                 [] OTHER -> "none"
                /\ connectFailed' = (outcome # "ok")
                /\ mpc' = IF outcome = "ok" THEN "poll" ELSE "returned"
         ELSE /\ mpc' = "poll"
              /\ UNCHANGED <<imapMail, connectFailed>>
    /\ UNCHANGED <<mailCall, backend, maxRetries, attempt, sleeps, mailbox, delivered,
                   pollLog, delLog, result, source, callerResult, typed>>
    /\ UNCHANGED notMail

\* EmailHandler.get_verification_code: one turn of its loop.  The newest
\* message of the sender has the highest id: it is the first of the mailbox.
ImapPoll ==
    /\ backend = "imap"
    /\ mpc = "poll"
    /\ LoopContinues(attempt, maxRetries)
    /\ \E transport \in {"ok", "exc"}, parse \in {"ok", "fail"} :
         LET failed == transport = "exc" \/ imapMail # "auth"
             readable == ~failed /\ mailbox # <<>> /\ parse = "ok"
             code == IF readable THEN ImapSearchCode(mailbox[1].body)
                     ELSE NoMatch
             last == ~SleepsAfter(attempt, maxRetries)
         IN
         /\ pollLog' = Append(pollLog, [held |-> code, err |-> failed,
                                        got |-> code, conn |-> imapMail])
         /\ IF failed /\ ImapHandler = "raise"
              THEN /\ mpc' = "raised"
                   /\ UNCHANGED <<result, source, sleeps, attempt>>
              ELSE IF code # NoMatch
              THEN /\ result' = code
                   /\ source' = mailbox[1].id
                   /\ mpc' = "returned"
                   /\ UNCHANGED <<sleeps, attempt>>
              ELSE /\ sleeps' = IF last THEN sleeps ELSE sleeps + 1
                   /\ attempt' = attempt + 1
                   /\ mpc' = IF last /\ (failed \/ mailbox = <<>>)
                             THEN "returned" ELSE mpc
                   /\ UNCHANGED <<result, source>>
    /\ UNCHANGED <<mailCall, backend, maxRetries, mailbox, delivered, delLog, imapMail,
                   connectFailed, callerResult, typed>>
    /\ UNCHANGED notMail

\* Both pollers: the loop is over, `return None`.
ReturnTimeout ==
    /\ mpc = "poll"
    /\ ~LoopContinues(attempt, maxRetries)
    /\ mpc' = "returned"
    /\ UNCHANGED <<mailCall, backend, maxRetries, attempt, sleeps, mailbox, delivered,
                   pollLog, delLog, result, source, imapMail, connectFailed,
                   callerResult, typed>>
    /\ UNCHANGED notMail

\* The callers: TavilyAutoRegister.verify_email (HTTP poller) and
\* TavilyRegister.register_account (IMAP poller).  No code: failure, nothing
\* is typed.  An exception of the poller would end in their except clauses.
CallerHandle ==
    /\ mpc \in {"returned", "raised"}
    /\ mpc' = "caller_done"
    /\ IF mpc = "raised" \/ result = NoMatch
         THEN /\ callerResult' = "false"
              /\ UNCHANGED typed
         ELSE \E typeOk \in BOOLEAN, submitOk \in BOOLEAN :
                /\ typed' = IF typeOk THEN result ELSE typed
                /\ callerResult' = IF typeOk /\ submitOk THEN "true"
                                   ELSE "false"
    /\ UNCHANGED <<mailCall, backend, maxRetries, attempt, sleeps, mailbox, delivered,
                   pollLog, delLog, result, source, imapMail, connectFailed>>
    /\ UNCHANGED notMail

\* A later call of get_verification_code on the same EmailHandler: self.mail
\* is as the earlier call left it.
CallAgain ==
    /\ backend = "imap"
    /\ mpc = "caller_done"
    /\ mailCall < MaxMailCalls
    /\ mailCall' = mailCall + 1
    /\ mpc' = "enter"
    /\ attempt' = 0
    /\ sleeps' = 0
    /\ pollLog' = <<>>
    /\ result' = NoMatch
    /\ source' = 0
    /\ connectFailed' = FALSE
    /\ callerResult' = "none"
    /\ typed' = NoMatch
    /\ UNCHANGED <<backend, maxRetries, mailbox, delivered, delLog, imapMail>>
    /\ UNCHANGED notMail

MailInit ==
    /\ backend \in {"http", "imap"}
    /\ mpc = IF backend = "imap" THEN "enter" ELSE "poll"
    /\ maxRetries \in 0..MaxRetries
    /\ attempt = 0
    /\ sleeps = 0
    /\ mailbox = <<>>
    /\ delivered = 0
    /\ pollLog = <<>>
    /\ delLog = <<>>
    /\ result = NoMatch
    /\ source = 0
    /\ imapMail = "none"
    /\ mailCall = 1
    /\ connectFailed = FALSE
    /\ callerResult = "none"
    /\ typed = NoMatch

\* start() makes no use of the mail pollers: none of its phases calls
\* verify_email or get_verification_code.
MailIdle ==
    /\ backend = "none"
    /\ mpc = "idle"
    /\ maxRetries = 0
    /\ attempt = 0
    /\ sleeps = 0
    /\ mailbox = <<>>
    /\ delivered = 0
    /\ pollLog = <<>>
    /\ delLog = <<>>
    /\ result = NoMatch
    /\ source = 0
    /\ imapMail = "none"
    /\ mailCall = 1
    /\ connectFailed = FALSE
    /\ callerResult = "none"
    /\ typed = NoMatch


(***************************************************************************)
(* generate_password() (utils/utils.py)                                    *)
(***************************************************************************)
PwLength == 12

lowercase ==
    {"a", "b", "c", "d", "e", "f", "g", "h", "i", "j", "k", "l", "m", "n",
     "o", "p", "q", "r", "s", "t", "u", "v", "w", "x", "y", "z"}

uppercase ==
    {"A", "B", "C", "D", "E", "F", "G", "H", "I", "J", "K", "L", "M", "N",
     "O", "P", "Q", "R", "S", "T", "U", "V", "W", "X", "Y", "Z"}

digits == Digits

special == {"@", "#", "$", "%"}

all_chars == lowercase \cup uppercase \cup digits \cup special

\* The characters the random source returns in the model.
RandomSample == {"q", "K", "5", "#"}

\* random.choice(chars)
Choice(chars) == chars \cap RandomSample

\* The classes the first characters of the password are drawn from, one each.
RequiredClasses_NoDigit == <<lowercase, uppercase, special, special>>

RequiredClasses == <<lowercase, uppercase, digits, special>>

\* The permutations random.shuffle applies in the model: the rotations by
\* 0..MaxRotate places and the reversal.
ShufflePerms ==
    { [i \in 1..PwLength |-> ((i - 1 + k) % PwLength) + 1] : k \in 0..MaxRotate }
        \cup { [i \in 1..PwLength |-> PwLength + 1 - i] }

\* password = [choice(lowercase), choice(uppercase), choice(digits),
\*             choice(special)]
PwFirst ==
    /\ gpc = "first"
    /\ \E f \in [1..Len(RequiredClasses) -> RandomSample] :
         /\ \A i \in 1..Len(RequiredClasses) : f[i] \in Choice(RequiredClasses[i])
         /\ pw' = f
    /\ gpc' = "extend"
    /\ UNCHANGED notPwd

\* password.extend(random.choice(all_chars) for _ in range(remaining_length)),
\* one character at a time.
PwExtend ==
    /\ gpc = "extend"
    /\ Len(pw) < PwLength
    /\ \E c \in Choice(all_chars) : pw' = Append(pw, c)
    /\ UNCHANGED gpc
    /\ UNCHANGED notPwd

\* random.shuffle(password); return ''.join(password)
PwShuffle ==
    /\ gpc = "extend"
    /\ Len(pw) >= PwLength
    /\ \E perm \in ShufflePerms : pw' = [i \in 1..Len(pw) |-> pw[perm[i]]]
    /\ gpc' = "done"
    /\ UNCHANGED notPwd

PwdInit ==
    /\ gpc = "first"
    /\ pw = <<>>

PwdIdle ==
    /\ gpc = "idle"
    /\ pw = <<>>

(***************************************************************************)
(* generate_email() (utils/utils.py)                                       *)
(***************************************************************************)
UsernameLen == 8

\* Values of the environment variable DOMAIN (config.py reads it unchecked):
\* the shape of the default '@lzban8.me', a bare domain, '@' doubled in
\* front, a trailing '@', and a value with '@' inside.
Domains ==
    { <<"@", "d", ".", "m">>,
      <<"d", ".", "m">>,
      <<"@", "@", "d", ".", "m">>,
      <<"d", ".", "m", "@">>,
      <<"m", "@", "d", ".", "m">> }

\* string.ascii_letters + string.digits
characters == lowercase \cup uppercase \cup digits

\* str.strip(c): c is removed from both ends and from nowhere else.
RECURSIVE lstrip(_, _)
lstrip(s, c) ==
    IF s # <<>> /\ Head(s) = c THEN lstrip(Tail(s), c) ELSE s

RECURSIVE rstrip(_, _)
rstrip(s, c) ==
    IF s # <<>> /\ s[Len(s)] = c THEN rstrip(SubSeq(s, 1, Len(s) - 1), c)
    ELSE s

strip(s, c) == rstrip(lstrip(s, c), c)

\* generate_random_string(length): one random.choice(characters) per place.
generate_random_string(length) == [1..length -> Choice(characters)]

\* generate_email(): Config() may raise ValueError (check_config); otherwise
\* the address is f"{username}@{domain}".
GenerateEmail ==
    /\ epc = "call"
    /\ UNCHANGED notEmail
    /\ UNCHANGED configDomain
    /\ \/ /\ epc' = "raised"
          /\ UNCHANGED <<username, address>>
       \/ \E name \in generate_random_string(UsernameLen) :
            LET domain == strip(configDomain, "@") IN
            /\ username' = name
            /\ address' = name \o <<"@">> \o domain
            /\ epc' = "done"

EmailInit ==
    /\ epc = "call"
    /\ configDomain \in Domains
    /\ username = <<>>
    /\ address = <<>>

EmailIdle ==
    /\ epc = "idle"
    /\ configDomain = <<>>
    /\ username = <<>>
    /\ address = <<>>

(***************************************************************************)
(* CaptchaHandler.verify_captcha() (core/captcha_handler.py)               *)
(***************************************************************************)
ExpectedLen == 6

\* What self.ocr.classification answers in the model: every string of up to
\* MaxOcrLen characters over a lowercase letter, an uppercase letter, a digit,
\* a symbol and a blank, and four longer answers (the third is the one of
\* spec section 8).
OcrChars == {"a", "B", "3", "#", " "}

OcrResults ==
    UNION { [1..n -> OcrChars] : n \in 0..MaxOcrLen }
      \cup { <<"a", "b", "c", "1", "2", "3">>,
             <<"A", "b", "C", "1", "2", "3">>,
             <<"a", "1", " ", "B", "2", "#", "c", "3">>,
             <<"a", "b", "-", "1", "2", "3", "4", "5">> }

\* str.isalnum and str.isupper, on the characters of the model.
isalnum(c) == c \in characters

isupper(c) == c \in uppercase

\* filtered_result = ''.join(c for c in result if c.isalnum())
FilterResult_KeepAll(raw) == raw

FilterResult(raw) == SelectSeq(raw, isalnum)

\* The two checks of _recognize_captcha: each only logs a warning.
LoggedWarnings(text) ==
    (IF Len(text) # ExpectedLen THEN {"length"} ELSE {})
      \cup (IF \E i \in 1..Len(text) : isupper(text[i]) THEN {} ELSE {"upper"})

\* "if not captcha_text" in verify_captcha: None and '' are the falsy values.
IsTruthy_WellFormed(captcha_text) ==
    Len(captcha_text) = ExpectedLen
      /\ \E i \in 1..Len(captcha_text) : isupper(captcha_text[i])

IsTruthy(captcha_text) == captcha_text # <<>>

\* The script run after the click: a visible error banner answers false
\* before the password field is looked at.
verification_success_PasswordFirst(errorVisible, passwordVisible) ==
    passwordVisible

verification_success(errorVisible, passwordVisible) ==
    IF errorVisible THEN FALSE ELSE passwordVisible

\* Which rounds leave the while True loop: "return True" after a successful
\* page check, "return False" in the except clause.
LoopExits_OnClickFail(outcome) ==
    outcome \in {"verified", "exception", "click_fail"}

LoopExits(outcome) == outcome \in {"verified", "exception"}

\* The steps of a round, in the order of the loop body.
StepOrder == <<"image", "ocr", "input", "click", "check">>

StepIndex(step) == CHOOSE i \in 1..Len(StepOrder) : StepOrder[i] = step

\* The steps a round goes through when `last` is the step that fails (and
\* leads to `continue`) or the final step: every step before it has
\* succeeded, no step after it is run.
StepsThrough_ClickAfterFailedInput(last) ==
    SubSeq(StepOrder, 1, StepIndex(IF last = "input" THEN "click" ELSE last))

StepsThrough(last) == SubSeq(StepOrder, 1, StepIndex(last))

\* What a round of verify_captcha leaves behind: the steps it went through,
\* what the OCR and the filter gave, what was typed and submitted, what the
\* page check saw, and whether the loop goes on.
EndRound(outcome, stepList, status, raw, text, arg, newField, clicked, dom) ==
    /\ steps' = stepList
    /\ ocrStatus' = status
    /\ ocrResult' = raw
    /\ filtered_result' = text
    /\ warnings' = IF status = "text" THEN LoggedWarnings(text) ELSE {}
    /\ inputArg' = arg
    /\ field' = newField
    /\ submitted' = IF clicked THEN [done |-> TRUE, text |-> newField]
                    ELSE [done |-> FALSE, text |-> <<>>]
    /\ domError' = dom[1]
    /\ domPassword' = dom[2]
    /\ lastOutcome' = outcome
    /\ IF LoopExits(outcome)
         THEN /\ cpc' = "done"
              /\ vret' = IF outcome = "verified" THEN "true" ELSE "false"
         ELSE /\ captcha_attempts + 1 < MaxCaptchaRounds
              /\ cpc' = "loop"
              /\ vret' = "none"

\* One round of the loop of verify_captcha.  _get_captcha_image,
\* _recognize_captcha, _input_captcha and _click_continue_button catch their
\* own exceptions and answer None or False; the page check
\* (self.page.run_js) is guarded only by the try block around the loop.
VerifyCaptchaRound ==
    /\ cpc = "loop"
    /\ UNCHANGED notCaptcha
    /\ captcha_attempts' = captcha_attempts + 1
    /\ \/ \* no captcha image is found
          EndRound("no_image", StepsThrough("image"), "none", <<>>, <<>>, <<>>, field,
                   FALSE, <<FALSE, FALSE>>)
       \/ \* the screenshot or the OCR raises: _recognize_captcha gives None
          EndRound("ocr_fail", StepsThrough("ocr"), "failed", <<>>, <<>>, <<>>,
                   field, FALSE, <<FALSE, FALSE>>)
       \/ \E raw \in OcrResults :
            LET text == FilterResult(raw) IN
            IF ~IsTruthy(text)
              THEN EndRound("ocr_fail", StepsThrough("ocr"), "text", raw, text,
                            <<>>, field, FALSE, <<FALSE, FALSE>>)
              ELSE \/ \* the input field is not found or clear() raises
                      \* (the field keeps its content), or input() raises
                      \* after clear() emptied it
                      \E newField \in {field, <<>>} :
                        EndRound("input_fail", StepsThrough("input"),
                                 "text", raw, text, text, newField, FALSE,
                                 <<FALSE, FALSE>>)
                   \/ \* the continue button is not found or click() raises
                      EndRound("click_fail", StepsThrough("click"), "text",
                               raw, text, text, text, FALSE,
                               <<FALSE, FALSE>>)
                   \/ \* self.page.run_js(js_code) raises
                      EndRound("exception",
                               StepsThrough("check"),
                               "text", raw, text, text, text, TRUE,
                               <<FALSE, FALSE>>)
                   \/ \E errorVisible \in BOOLEAN, passwordVisible \in BOOLEAN :
                        EndRound(IF verification_success(errorVisible,
                                                         passwordVisible)
                                   THEN "verified" ELSE "check_fail",
                                 StepsThrough("check"),
                                 "text", raw, text, text, text, TRUE,
                                 <<errorVisible, passwordVisible>>)

CaptchaInit ==
    /\ cpc = "loop"
    /\ captcha_attempts = 0
    /\ steps = <<>>
    /\ ocrStatus = "none"
    /\ ocrResult = <<>>
    /\ filtered_result = <<>>
    /\ warnings = {}
    /\ inputArg = <<>>
    /\ field = <<>>
    /\ submitted = [done |-> FALSE, text |-> <<>>]
    /\ domError = FALSE
    /\ domPassword = FALSE
    /\ lastOutcome = "none"
    /\ vret = "none"

CaptchaIdle ==
    /\ cpc = "idle"
    /\ captcha_attempts = 0
    /\ steps = <<>>
    /\ ocrStatus = "none"
    /\ ocrResult = <<>>
    /\ filtered_result = <<>>
    /\ warnings = {}
    /\ inputArg = <<>>
    /\ field = <<>>
    /\ submitted = [done |-> FALSE, text |-> <<>>]
    /\ domError = FALSE
    /\ domPassword = FALSE
    /\ lastOutcome = "none"
    /\ vret = "none"

(***************************************************************************)
(* The form fills of _fill_registration_form: _handle_email_input          *)
(* (tavily_auto.py), _input_captcha, handle_password_input and             *)
(* _handle_input (core/captcha_handler.py).                                *)
(***************************************************************************)
FormFields == {"email", "captcha", "password"}

\* What a field of the page may hold before it is filled (nothing, or text
\* the browser or an earlier round left there), and the texts that are input.
StaleTexts == { <<>>, <<"x">> }

FillText(f) ==
    CASE f = "email" -> <<"e">>
      [] f = "captcha" -> <<"c">>
      [] OTHER -> <<"p">>

\* The lookups of handle_password_input, in the order of the source: the id,
\* the four alternative selectors, the script.
PasswordSelectors ==
    <<"#password", "class", "name_type", "type_autocomplete",
      "type_required_autofocus", "script">>

\* The first lookup that finds a field, 0 if none does.
FirstFound_Last(present) ==
    IF present = {} THEN 0 ELSE CHOOSE i \in present : \A j \in present : j <= i

FirstFound(present) == IF present = {} THEN 0 ELSE Least(present)

\* The calls a fill makes on the element it found: _handle_email_input and
\* _input_captcha call clear() and then input(); _handle_input calls input()
\* only.
FillCalls(f) ==
    IF f = "password" THEN << [field |-> f, op |-> "input"] >>
    ELSE << [field |-> f, op |-> "clear"], [field |-> f, op |-> "input"] >>

\* The field after the fill.  Without a clear() call before it, whether
\* input() replaces the old text or adds to it is up to the browser library.
FilledContents(f, old) ==
    IF f = "password" THEN {FillText(f), old \o FillText(f)}
    ELSE {FillText(f)}

\* _handle_email_input(email): not finding the field returns False; an
\* exception ends in the except clause of _fill_registration_form.
EmailInput ==
    /\ fpc = "email"
    /\ UNCHANGED notForm
    /\ UNCHANGED pwCall
    /\ \/ /\ elemCalls' = elemCalls \o FillCalls("email")
          /\ \E new \in FilledContents("email", content["email"]) :
               content' = [content EXCEPT !["email"] = new]
          /\ fpc' = "captcha"
          /\ formRet' = "none"
       \/ /\ UNCHANGED <<elemCalls, content>>
          /\ fpc' = "done"
          /\ formRet' = "false"

\* _input_captcha(captcha_text), once per round of verify_captcha: a failed
\* input leads to another round, an exception of the round ends the loop.
InputCaptcha ==
    /\ fpc = "captcha"
    /\ UNCHANGED notForm
    /\ UNCHANGED pwCall
    /\ \/ /\ elemCalls' = elemCalls \o FillCalls("captcha")
          /\ \E new \in FilledContents("captcha", content["captcha"]) :
               content' = [content EXCEPT !["captcha"] = new]
          /\ \E verified \in BOOLEAN :
               /\ ~verified => Len(elemCalls) < MaxElemCalls
               /\ fpc' = IF verified THEN "password" ELSE "captcha"
          /\ formRet' = "none"
       \/ /\ UNCHANGED <<elemCalls, content>>
          /\ fpc' = "done"
          /\ formRet' = "false"

\* handle_password_input(browser): the lookups are tried in order until one
\* finds a field; the password is input into it; the Continue button is
\* looked up and clicked.  An exception of a lookup, of the button script or
\* of the click ends in an except clause and False is returned.
PasswordInput ==
    /\ fpc = "password"
    /\ UNCHANGED notForm
    /\ fpc' = "done"
    /\ \E present \in SUBSET (1..Len(PasswordSelectors)),
          lookup \in {"ok", "raise"}, input \in {"ok", "raise"},
          button \in {"found", "none", "raise"}, click \in {"ok", "raise"} :
         LET first == FirstFound(present)
             found == lookup = "ok" /\ first # 0
             inputOk == found /\ input = "ok"
             hasButton == inputOk /\ button = "found"
             clicked == hasButton /\ click = "ok"
             tried == CASE lookup = "raise" -> 1
                        [] first = 0 -> Len(PasswordSelectors)
                        [] OTHER -> first
         IN
         /\ pwCall' = [present |-> present,
                       tried |-> SubSeq(PasswordSelectors, 1, tried),
                       used |-> IF found THEN first ELSE 0,
                       inputOk |-> inputOk,
                       hasButton |-> hasButton,
                       clicked |-> clicked]
         /\ elemCalls' = IF found THEN elemCalls \o FillCalls("password")
                         ELSE elemCalls
         /\ IF inputOk
              THEN \E new \in FilledContents("password", content["password"]) :
                     content' = [content EXCEPT !["password"] = new]
              ELSE UNCHANGED content
         /\ formRet' = IF clicked THEN "true" ELSE "false"

NoPwCall ==
    [present |-> {}, tried |-> <<>>, used |-> 0, inputOk |-> FALSE,
     hasButton |-> FALSE, clicked |-> FALSE]

FormInit ==
    /\ fpc = "email"
    /\ content \in [FormFields -> StaleTexts]
    /\ elemCalls = <<>>
    /\ pwCall = NoPwCall
    /\ formRet = "none"

FormIdle ==
    /\ fpc = "idle"
    /\ content = [f \in FormFields |-> <<>>]
    /\ elemCalls = <<>>
    /\ pwCall = NoPwCall
    /\ formRet = "none"

(***************************************************************************)
(* Two registration runs started from one working directory: both use      *)
(* os.getcwd()/temp_browser_data (core/browser_utils.py) and accounts.csv  *)
(* (tavily_auto.py).                                                       *)
(***************************************************************************)
ConcRuns == {1, 2}

\* shutil.rmtree(temp_dir) of a directory a running browser may hold open:
\* it removes the directory, or raises where open files cannot be removed.
RmtreeOutcomes == {"removed", "raise"}

\* BrowserUtils.start(): an existing temp_browser_data is removed, the
\* directory is made anew and the browser is launched on it.
ConcBrowserStart ==
    /\ UNCHANGED notConc
    /\ UNCHANGED <<sawFile, csvExists, csvRows, written>>
    /\ \E r \in ConcRuns, rm \in RmtreeOutcomes, launched \in BOOLEAN :
         /\ rpc[r] = "start"
         /\ IF profileDir # 0 /\ rm = "raise"
              THEN /\ rpc' = [rpc EXCEPT ![r] = "close"]
                   /\ UNCHANGED <<profileDir, inUse>>
              ELSE /\ profileDir' = r
                   /\ inUse' = IF launched THEN inUse \cup {r} ELSE inUse
                   /\ rpc' = [rpc EXCEPT ![r] = IF launched THEN "register"
                                               ELSE "close"]

\* The phases of start() between the browser start and the save.
ConcRegister ==
    /\ UNCHANGED notConc
    /\ UNCHANGED <<profileDir, inUse, sawFile, csvExists, csvRows, written>>
    /\ \E r \in ConcRuns, registered \in BOOLEAN :
         /\ rpc[r] = "register"
         /\ rpc' = [rpc EXCEPT ![r] = IF registered THEN "save_check"
                                     ELSE "close"]

\* _save_account_info: `file_exists = os.path.exists(filename)`.
ConcSaveCheck ==
    /\ UNCHANGED notConc
    /\ UNCHANGED <<profileDir, inUse, csvExists, csvRows, written>>
    /\ \E r \in ConcRuns :
         /\ rpc[r] = "save_check"
         /\ sawFile' = [sawFile EXCEPT ![r] = csvExists]
         /\ rpc' = [rpc EXCEPT ![r] = "save_write"]

\* _save_account_info: the file is opened in mode 'a' or 'w' and written.
ConcSaveWrite ==
    /\ UNCHANGED notConc
    /\ UNCHANGED <<profileDir, inUse, sawFile>>
    /\ \E r \in ConcRuns :
         /\ rpc[r] = "save_write"
         /\ csvExists' = TRUE
         /\ csvRows' = IF sawFile[r] THEN Append(csvRows, r) ELSE <<0, r>>
         /\ written' = written \cup {r}
         /\ rpc' = [rpc EXCEPT ![r] = "close"]

\* BrowserUtils.close(): the browser quits and temp_browser_data is removed
\* if it exists.
ConcBrowserClose ==
    /\ UNCHANGED notConc
    /\ UNCHANGED <<sawFile, csvExists, csvRows, written>>
    /\ \E r \in ConcRuns, rm \in RmtreeOutcomes :
         /\ rpc[r] = "close"
         /\ inUse' = inUse \ {r}
         /\ profileDir' = IF rm = "removed" THEN 0 ELSE profileDir
         /\ rpc' = [rpc EXCEPT ![r] = "done"]

\* Both runs are about to start; the working directory may hold an
\* accounts.csv of earlier runs.
ConcInit ==
    /\ rpc = [r \in ConcRuns |-> "start"]
    /\ profileDir = 0
    /\ inUse = {}
    /\ sawFile = [r \in ConcRuns |-> FALSE]
    /\ csvExists \in BOOLEAN
    /\ csvRows = IF csvExists THEN <<0>> ELSE <<>>
    /\ written = {}

ConcIdle ==
    /\ rpc = [r \in ConcRuns |-> "idle"]
    /\ profileDir = 0
    /\ inUse = {}
    /\ sawFile = [r \in ConcRuns |-> FALSE]
    /\ csvExists = FALSE
    /\ csvRows = <<>>
    /\ written = {}

(***************************************************************************)
(* Config.__init__ and Config.check_config (config.py).                    *)
(***************************************************************************)
\* os.getenv of a variable that is not set.
Unset == <<"unset">>

NullMail == <<"n", "u", "l", "l">>

\* The settings Config reads that can make its construction fail, and the
\* values the environment may give them.
Environments ==
    [BROWSER_TYPE : {Unset, <<>>, <<"c">>},
     BROWSER_WIDTH : {Unset, <<"w">>},
     BROWSER_HEIGHT : {Unset, <<"h">>},
     TEMP_MAIL : {Unset, <<" ">>, NullMail, <<"t">>},
     IMAP_SERVER : {Unset, <<" ">>, <<"s">>},
     IMAP_PORT : {Unset, <<>>, <<"p">>, <<"9", "9", "3">>},
     IMAP_USER : {Unset, <<>>, <<"u">>},
     IMAP_PASS : {Unset, <<" ">>, <<"q">>}]

\* Python values: a str, an int (with the text it was converted from), None.
PyStr(s) == [type |-> "str", val |-> s]
PyInt(s) == [type |-> "int", val |-> s]
PyNone == [type |-> "none", val |-> <<>>]

\* os.getenv(name, default) and os.getenv(name)
Getenv(e, name, default) ==
    IF e[name] = Unset THEN PyStr(default) ELSE PyStr(e[name])

GetenvOrNone(e, name) == IF e[name] = Unset THEN PyNone ELSE PyStr(e[name])

\* int(s) takes digits, with blanks around them, and raises ValueError on
\* anything else.
IntRaises(v) ==
    LET s == strip(v.val, " ") IN
    s = <<>> \/ \E i \in 1..Len(s) : s[i] \notin Digits

\* check_is_valid(value): `isinstance(value, str) and
\* len(str(value).strip()) > 0`
check_is_valid(v) == v.type = "str" /\ Len(strip(v.val, " ")) > 0

\* The attributes __init__ sets from the environment e.
ConfigAttrs(e) ==
    [BROWSER_TYPE |-> Getenv(e, "BROWSER_TYPE", <<"c", "h", "r", "o", "m", "e">>),
     BROWSER_WIDTH |-> PyInt(Getenv(e, "BROWSER_WIDTH", <<"1", "9", "2", "0">>).val),
     BROWSER_HEIGHT |-> PyInt(Getenv(e, "BROWSER_HEIGHT", <<"1", "0", "8", "0">>).val),
     TEMP_MAIL |-> GetenvOrNone(e, "TEMP_MAIL"),
     IMAP_SERVER |-> GetenvOrNone(e, "IMAP_SERVER"),
     IMAP_PORT |-> PyInt(Getenv(e, "IMAP_PORT", <<"9", "9", "3">>).val),
     IMAP_USER |-> GetenvOrNone(e, "IMAP_USER"),
     IMAP_PASS |-> GetenvOrNone(e, "IMAP_PASS")]

\* The settings check_config examines, in its order, for the attributes a.
CheckedSettings(a) ==
    <<"BROWSER_TYPE">> \o
      (IF a.TEMP_MAIL # PyStr(NullMail) THEN <<"TEMP_MAIL">>
       ELSE <<"IMAP_SERVER", "IMAP_PORT", "IMAP_USER", "IMAP_PASS">>)

\* The first statement of the construction that raises ValueError, as the
\* pair of where it raises and for which setting; <<"ok", "none">> if none.
ConfigOutcome(e) ==
    LET a == ConfigAttrs(e)
        ints == <<"BROWSER_WIDTH", "BROWSER_HEIGHT", "IMAP_PORT">>
        badInts == {i \in 1..Len(ints) : IntRaises(a[ints[i]])}
        checked == CheckedSettings(a)
        invalid == {i \in 1..Len(checked) : ~check_is_valid(a[checked[i]])}
    IN  IF badInts # {} THEN <<"int", ints[Least(badInts)]>>
        ELSE IF invalid # {} THEN <<"check", checked[Least(invalid)]>>
        ELSE <<"ok", "none">>

\* Config(): the environment is read and check_config is run.
ConstructConfig ==
    /\ kpc = "construct"
    /\ kpc' = "done"
    /\ cfgOutcome' = ConfigOutcome(env)
    /\ UNCHANGED env
    /\ UNCHANGED notConfig

ConfigInit ==
    /\ kpc = "construct"
    /\ env \in Environments
    /\ cfgOutcome = <<"none", "none">>

ConfigIdle ==
    /\ kpc = "idle"
    /\ env = [BROWSER_TYPE |-> Unset, BROWSER_WIDTH |-> Unset,
              BROWSER_HEIGHT |-> Unset, TEMP_MAIL |-> Unset,
              IMAP_SERVER |-> Unset, IMAP_PORT |-> Unset, IMAP_USER |-> Unset,
              IMAP_PASS |-> Unset]
    /\ cfgOutcome = <<"none", "none">>

(***************************************************************************)
(* start(): control flow.                                                  *)
(***************************************************************************)
Phases == <<"browser_start", "prepare", "navigate", "email", "captcha",
            "password", "get_key", "save">>

\* Where start() goes after a phase: a phase that returns False or raises sends
\* it to the finally block; _save_account_info returns nothing, so start()
\* goes on to "return True" whatever happened inside it.
StartNext_SaveAfterMissingKey(phase, ok) ==
    CASE phase = "browser_start" -> IF ok THEN "prepare" ELSE "close"
      [] phase = "prepare" -> IF ok THEN "navigate" ELSE "close"
      [] phase = "navigate" -> IF ok THEN "email" ELSE "close"
      [] phase = "email" -> IF ok THEN "captcha" ELSE "close"
      [] phase = "captcha" -> IF ok THEN "password" ELSE "close"
      [] phase = "password" -> IF ok THEN "get_key" ELSE "close"
      [] phase = "get_key" -> "save"
      [] OTHER -> "close"

StartNext_SkipPassword(phase, ok) ==
    CASE phase = "browser_start" -> IF ok THEN "prepare" ELSE "close"
      [] phase = "prepare" -> IF ok THEN "navigate" ELSE "close"
      [] phase = "navigate" -> IF ok THEN "email" ELSE "close"
      [] phase = "email" -> IF ok THEN "captcha" ELSE "close"
      [] phase = "captcha" -> IF ok THEN "get_key" ELSE "close"
      [] phase = "password" -> IF ok THEN "get_key" ELSE "close"
      [] phase = "get_key" -> IF ok THEN "save" ELSE "close"
      [] OTHER -> "close"

StartNext_RetryKey(phase, ok) ==
    CASE phase = "browser_start" -> IF ok THEN "prepare" ELSE "close"
      [] phase = "prepare" -> IF ok THEN "navigate" ELSE "close"
      [] phase = "navigate" -> IF ok THEN "email" ELSE "close"
      [] phase = "email" -> IF ok THEN "captcha" ELSE "close"
      [] phase = "captcha" -> IF ok THEN "password" ELSE "close"
      [] phase = "password" -> IF ok THEN "get_key" ELSE "close"
      [] phase = "get_key" -> IF ok THEN "save" ELSE "get_key"
      [] OTHER -> "close"

StartNext(phase, ok) ==
    CASE phase = "browser_start" -> IF ok THEN "prepare" ELSE "close"
      [] phase = "prepare" -> IF ok THEN "navigate" ELSE "close"
      [] phase = "navigate" -> IF ok THEN "email" ELSE "close"
      [] phase = "email" -> IF ok THEN "captcha" ELSE "close"
      [] phase = "captcha" -> IF ok THEN "password" ELSE "close"
      [] phase = "password" -> IF ok THEN "get_key" ELSE "close"
      [] phase = "get_key" -> IF ok THEN "save" ELSE "close"
      [] OTHER -> "close"

\* The value start() returns once a phase has ended.
StartRet(phase, ok) ==
    IF ~ok THEN "false" ELSE IF phase = "save" THEN "true" ELSE "none"

\* The bookkeeping every phase of start() shares.
EndPhase(phase, ok) ==
    /\ pc' = StartNext(phase, ok)
    /\ ret' = StartRet(phase, ok)
    /\ calls' = Append(calls, phase)
    /\ failedAt' = IF ok THEN failedAt ELSE phase

(***************************************************************************)
(* BrowserUtils.start()                                                    *)
(***************************************************************************)
BrowserStart ==
    /\ pc = "browser_start"
    /\ UNCHANGED notOrch
    /\ \E outcome \in {"ok", "fail_early", "fail_rmtree", "fail_makedirs",
                       "fail_launch"} :
         /\ outcome = "fail_rmtree" => tempDir
         /\ tempDir' = CASE outcome = "ok" -> TRUE
                         [] outcome = "fail_launch" -> TRUE
                         [] outcome = "fail_makedirs" -> FALSE
                         [] OTHER -> tempDir
         /\ page' = IF outcome = "ok" THEN "open" ELSE page
         /\ EndPhase("browser_start", outcome = "ok")
    /\ UNCHANGED <<typedEmail, typedPassword, keyData, runLog, run, fileExists, accounts, email, password, configPassword,
                   apiKey, keyQueries, captchaAttempts, saveOutcome>>

\* CaptchaHandler(self.browser.page), generate_email(), generate_password(),
\* self.config.PASSWORD = password
Prepare ==
    /\ pc = "prepare"
    /\ UNCHANGED notOrch
    /\ \/ /\ \E e \in Emails, p \in Passwords :
               /\ email' = e
               /\ password' = p
               /\ configPassword' = p
          /\ EndPhase("prepare", TRUE)
       \/ /\ UNCHANGED <<email, password, configPassword>>
          /\ EndPhase("prepare", FALSE)
    /\ UNCHANGED <<typedEmail, typedPassword, keyData, runLog, run, page, tempDir, fileExists, accounts, apiKey,
                   keyQueries, captchaAttempts, saveOutcome>>

\* _handle_navigation(): every failure inside it comes back as False.
HandleNavigation ==
    /\ pc = "navigate"
    /\ UNCHANGED notOrch
    /\ \E ok \in BOOLEAN : EndPhase("navigate", ok)
    /\ UNCHANGED <<typedEmail, typedPassword, keyData, runLog, run, page, tempDir, fileExists, accounts, email, password,
                   configPassword, apiKey, keyQueries, captchaAttempts, saveOutcome>>

\* _handle_email_input(email) inside _fill_registration_form's try block.
HandleEmailInput ==
    /\ pc = "email"
    /\ UNCHANGED notOrch
    /\ \E outcome \in {"ok", "not_found", "exception"} :
         /\ typedEmail' = IF outcome = "ok" THEN email ELSE typedEmail
         /\ EndPhase("email", outcome = "ok")
    /\ UNCHANGED <<typedPassword, keyData, runLog, run, page, tempDir, fileExists, accounts, email, password,
                   configPassword, apiKey, keyQueries, captchaAttempts, saveOutcome>>

\* verify_captcha(): one round of its while True loop.  Only a successful
\* page check leaves the loop with True; an exception leaves it with False.
CaptchaRound ==
    /\ pc = "captcha"
    /\ UNCHANGED notOrch
    /\ \E outcome \in {"no_image", "ocr_fail", "input_fail", "click_fail",
                       "check_fail", "verified", "exception"} :
         /\ captchaAttempts' = captchaAttempts + 1
         /\ IF outcome \in {"verified", "exception"}
              THEN /\ pc' = StartNext("captcha", outcome = "verified")
                   /\ ret' = StartRet("captcha", outcome = "verified")
                   /\ failedAt' = IF outcome = "verified" THEN failedAt
                                  ELSE "captcha"
              ELSE /\ captchaAttempts + 1 < MaxCaptchaRounds
                   /\ UNCHANGED <<pc, ret, failedAt>>
         /\ calls' = IF captchaAttempts = 0 THEN Append(calls, "captcha")
                     ELSE calls
    /\ UNCHANGED <<typedEmail, typedPassword, keyData, runLog, run, page, tempDir, fileExists, accounts, email, password,
                   configPassword, apiKey, keyQueries, saveOutcome>>

\* password = browser.config.PASSWORD: browser.config is the Config object
\* of TavilyAutoRegister, the one start() stored the password in.
PasswordRead_Regenerated == CHOOSE p \in Passwords : p # password

PasswordRead == configPassword

\* handle_password_input(browser): the password is input when a field is
\* found; True needs the Continue button clicked as well.
HandlePasswordInput ==
    /\ pc = "password"
    /\ UNCHANGED notOrch
    /\ \E outcome \in {"ok", "no_field", "input_fail", "no_button",
                       "exception"} :
         /\ typedPassword' = IF outcome \in {"ok", "no_button"}
                               THEN PasswordRead ELSE typedPassword
         /\ EndPhase("password", outcome = "ok")
    /\ UNCHANGED <<typedEmail, keyData, runLog, run, page, tempDir, fileExists, accounts, email, password,
                   configPassword, apiKey, keyQueries, captchaAttempts, saveOutcome>>

\* The script _get_api_key runs in the page: data[0].key if it has the prefix.
JsGetApiKey(data) ==
    IF Len(data) > 0 /\ data[1].prefix = KeyPrefix THEN data[1] ELSE NoKey

\* _get_api_key(): one query of the keys endpoint; no key raises, and the
\* except clause of start() turns that into "return False".
GetApiKey ==
    /\ pc = "get_key"
    /\ UNCHANGED notOrch
    /\ \/ \E data \in KeyResponses :
            LET key == JsGetApiKey(data) IN
            /\ apiKey' = IF key = NoKey THEN apiKey ELSE key
            /\ keyQueries' = keyQueries + 1
            /\ keyData' = data
            /\ EndPhase("get_key", key # NoKey)
       \/ \* the fetch fails (the script returns null) or run_js raises
          /\ keyQueries' = keyQueries + 1
          /\ UNCHANGED <<apiKey, keyData>>
          /\ EndPhase("get_key", FALSE)
    /\ UNCHANGED <<typedEmail, typedPassword, runLog, run, page, tempDir, fileExists, accounts, email, password,
                   configPassword, captchaAttempts, saveOutcome>>

\* The file after _save_account_info, by how far the write got: mode 'a' for
\* a file that exists, mode 'w' and the header row for one that does not.
SavedFile_AlwaysW(outcome) ==
    LET row == DataRow(email, password, apiKey, run) IN
    CASE outcome = "ok" -> <<HeaderRow, row>>
      [] outcome = "fail_after_header" -> <<HeaderRow>>
      [] outcome = "fail_after_open" -> <<>>
      [] OTHER -> accounts

SavedFile(outcome) ==
    LET row == DataRow(email, password, apiKey, run) IN
    CASE outcome = "ok" ->
           IF fileExists THEN Append(accounts, row) ELSE <<HeaderRow, row>>
      [] outcome = "fail_after_header" ->
           IF fileExists THEN accounts ELSE <<HeaderRow>>
      [] outcome = "fail_after_open" ->
           IF fileExists THEN accounts ELSE <<>>
      [] OTHER -> accounts

\* Does _save_account_info raise to start()?  Its except clause only logs.
SaveRaises_Propagate(outcome) == outcome # "ok"

SaveRaises(outcome) == FALSE

\* _save_account_info(email, password, api_key): an exception is logged and
\* swallowed.
SaveAccountInfo ==
    /\ pc = "save"
    /\ UNCHANGED notOrch
    /\ \E outcome \in {"ok", "fail_before_open", "fail_after_open",
                       "fail_after_header"} :
         /\ accounts' = SavedFile(outcome)
         /\ fileExists' = (fileExists \/ outcome # "fail_before_open")
         /\ saveOutcome' = outcome
         /\ EndPhase("save", ~SaveRaises(outcome))
    /\ UNCHANGED <<typedEmail, typedPassword, keyData, runLog, run, page, tempDir, email, password, configPassword, apiKey,
                   keyQueries, captchaAttempts>>

\* What start() hands to its caller once the finally block has run: close()
\* logs whatever is raised inside it, so the value being returned stands.
StartResult_CloseRaises(returning, closeRaised) ==
    IF closeRaised THEN "raised" ELSE returning

StartResult(returning, closeRaised) == returning

\* BrowserUtils.close(), from the finally block of start(): page.quit() and
\* the removal of the temp directory share one try block.
BrowserClose ==
    /\ pc = "close"
    /\ UNCHANGED notOrch
    /\ \E quit \in {"ok", "raise"}, rmtree \in {"ok", "raise"} :
         LET quitRaised == page = "open" /\ quit = "raise"
             closeRaised == quitRaised \/ (tempDir /\ rmtree = "raise")
         IN
         /\ page' = IF page = "open" /\ quit = "ok" THEN "quit" ELSE page
         /\ tempDir' = IF quitRaised \/ rmtree = "raise" THEN tempDir
                       ELSE FALSE
         /\ ret' = StartResult(ret, closeRaised)
         /\ runLog' = Append(runLog,
                             [ret |-> StartResult(ret, closeRaised),
                              failedAt |-> failedAt,
                              saveOutcome |-> saveOutcome,
                              closeRaised |-> closeRaised])
    /\ pc' = "done"
    /\ UNCHANGED <<run, fileExists, accounts, email, password, configPassword,
                   apiKey, calls, failedAt, keyQueries, captchaAttempts,
                   saveOutcome, typedEmail, typedPassword, keyData>>

\* main() is run again from the same working directory.
NewRun ==
    /\ pc = "done"
    /\ UNCHANGED notOrch
    /\ run < MaxRuns
    /\ run' = run + 1
    /\ pc' = "browser_start"
    /\ page' = "none"
    /\ email' = NoValue
    /\ password' = NoValue
    /\ configPassword' = NoValue
    /\ apiKey' = NoKey
    /\ ret' = "none"
    /\ calls' = <<>>
    /\ failedAt' = "none"
    /\ keyQueries' = 0
    /\ captchaAttempts' = 0
    /\ saveOutcome' = "none"
    /\ typedEmail' = NoValue
    /\ typedPassword' = NoValue
    /\ keyData' = <<>>
    /\ UNCHANGED <<tempDir, fileExists, accounts, runLog>>

OrchInit ==
    /\ run = 1
    /\ pc = "browser_start"
    /\ page = "none"
    /\ tempDir = FALSE
    /\ fileExists = FALSE
    /\ accounts = <<>>
    /\ email = NoValue
    /\ password = NoValue
    /\ configPassword = NoValue
    /\ apiKey = NoKey
    /\ ret = "none"
    /\ calls = <<>>
    /\ failedAt = "none"
    /\ keyQueries = 0
    /\ captchaAttempts = 0
    /\ saveOutcome = "none"
    /\ runLog = <<>>
    /\ typedEmail = NoValue
    /\ typedPassword = NoValue
    /\ keyData = <<>>

OrchIdle ==
    /\ run = 0
    /\ pc = "idle"
    /\ page = "none"
    /\ tempDir = FALSE
    /\ fileExists = FALSE
    /\ accounts = <<>>
    /\ email = NoValue
    /\ password = NoValue
    /\ configPassword = NoValue
    /\ apiKey = NoKey
    /\ ret = "none"
    /\ calls = <<>>
    /\ failedAt = "none"
    /\ keyQueries = 0
    /\ captchaAttempts = 0
    /\ saveOutcome = "none"
    /\ runLog = <<>>
    /\ typedEmail = NoValue
    /\ typedPassword = NoValue
    /\ keyData = <<>>

Init ==
    OrchInit /\ MailIdle /\ ExtractIdle /\ PwdIdle /\ EmailIdle /\ CaptchaIdle
      /\ FormIdle /\ ConcIdle /\ ConfigIdle

Next ==
    \/ BrowserStart
    \/ Prepare
    \/ HandleNavigation
    \/ HandleEmailInput
    \/ CaptchaRound
    \/ HandlePasswordInput
    \/ GetApiKey
    \/ SaveAccountInfo
    \/ BrowserClose
    \/ NewRun

Spec == Init /\ [][Next]_vars

\* The mail pollers, called by verify_email and register_account.
InitMail ==
    OrchIdle /\ MailInit /\ ExtractIdle /\ PwdIdle /\ EmailIdle /\ CaptchaIdle
      /\ FormIdle /\ ConcIdle /\ ConfigIdle

NextMail ==
    \/ Deliver
    \/ HttpPoll
    \/ ImapEnter
    \/ ImapPoll
    \/ ReturnTimeout
    \/ CallerHandle
    \/ CallAgain

SpecMail == InitMail /\ [][NextMail]_vars

\* The code extractor, applied to sample bodies.
InitExtract ==
    OrchIdle /\ MailIdle /\ ExtractInit /\ PwdIdle /\ EmailIdle /\ CaptchaIdle
      /\ FormIdle /\ ConcIdle /\ ConfigIdle

NextExtract == Extract

SpecExtract == InitExtract /\ [][NextExtract]_vars

\* generate_password().
InitPwd ==
    OrchIdle /\ MailIdle /\ ExtractIdle /\ PwdInit /\ EmailIdle /\ CaptchaIdle
      /\ FormIdle /\ ConcIdle /\ ConfigIdle

NextPwd ==
    \/ PwFirst
    \/ PwExtend
    \/ PwShuffle

SpecPwd == InitPwd /\ [][NextPwd]_vars

\* generate_email().
InitEmail ==
    OrchIdle /\ MailIdle /\ ExtractIdle /\ PwdIdle /\ EmailInit /\ CaptchaIdle
      /\ FormIdle /\ ConcIdle /\ ConfigIdle

NextEmail == GenerateEmail

SpecEmail == InitEmail /\ [][NextEmail]_vars

\* CaptchaHandler.verify_captcha().
InitCaptcha ==
    OrchIdle /\ MailIdle /\ ExtractIdle /\ PwdIdle /\ EmailIdle /\ CaptchaInit
      /\ FormIdle /\ ConcIdle /\ ConfigIdle

NextCaptcha == VerifyCaptchaRound

SpecCaptcha == InitCaptcha /\ [][NextCaptcha]_vars

\* The form fills, in the order of _fill_registration_form.
InitForm ==
    OrchIdle /\ MailIdle /\ ExtractIdle /\ PwdIdle /\ EmailIdle /\ CaptchaIdle
      /\ FormInit /\ ConcIdle /\ ConfigIdle

NextForm ==
    \/ EmailInput
    \/ InputCaptcha
    \/ PasswordInput

SpecForm == InitForm /\ [][NextForm]_vars

\* Two runs in one working directory, their steps interleaved.
InitConc ==
    OrchIdle /\ MailIdle /\ ExtractIdle /\ PwdIdle /\ EmailIdle /\ CaptchaIdle
      /\ FormIdle /\ ConcInit /\ ConfigIdle

NextConc ==
    \/ ConcBrowserStart
    \/ ConcRegister
    \/ ConcSaveCheck
    \/ ConcSaveWrite
    \/ ConcBrowserClose

SpecConc == InitConc /\ [][NextConc]_vars

\* The construction of Config from an environment.
InitConfig ==
    OrchIdle /\ MailIdle /\ ExtractIdle /\ PwdIdle /\ EmailIdle /\ CaptchaIdle
      /\ FormIdle /\ ConcIdle /\ ConfigInit

NextConfig == ConstructConfig

SpecConfig == InitConfig /\ [][NextConfig]_vars

(***************************************************************************)
(* Properties of start().                                                  *)
(***************************************************************************)
InCalls(phase) == \E i \in 1..Len(calls) : calls[i] = phase

\* A data row of accounts.csv that this run wrote.
RowWrittenThisRun ==
    \E i \in 1..Len(accounts) :
        accounts[i].kind = "data" /\ accounts[i].created_at = run

KeyObtained == apiKey # NoKey

\* The browser session is released: no page is left open and the temp
\* profile directory is gone.
Released == page # "open" /\ ~tempDir

\* C1, as stated: a run has written a record row if and only if _get_api_key
\* obtained an API key in that run.
C1_RowIffKeyObtained ==
    pc = "done" => (RowWrittenThisRun <=> KeyObtained)

\* C1, amended: a row is written only in a run that obtained a key, and is
\* written whenever the key was obtained and the write raised nothing; a run
\* that failed in an earlier phase writes no row.
C1_RowOnlyWithKey ==
    /\ RowWrittenThisRun => (KeyObtained /\ saveOutcome = "ok")
    /\ (pc \in {"close", "done"} /\ KeyObtained /\ saveOutcome = "ok")
           => RowWrittenThisRun
    /\ failedAt # "none" => ~RowWrittenThisRun
    /\ (pc = "done" /\ saveOutcome \notin {"none", "ok"})
           => (KeyObtained /\ ~RowWrittenThisRun)

C1_Witness ==
    /\ pc = "done"
    /\ run = 2
    /\ RowWrittenThisRun
    /\ KeyObtained
    /\ Len(accounts) = 3

\* C3, as stated: when start() has returned, the browser session is released:
\* the page is quit and the temp profile directory is removed.
C3_ReleasedOnEveryExit ==
    pc = "done" => Released

\* C2, as stated: the phases run in their order, a failed phase ends the run
\* as failed with no later phase invoked, and a failure at email entry invokes
\* neither the captcha solver, the mail poller nor persistence and leaves the
\* browser closed.
C2_FailureEndsRunBrowserClosed ==
    /\ \A i \in 1..Len(calls) : i <= Len(Phases) /\ calls[i] = Phases[i]
    /\ failedAt # "none" =>
          /\ pc \in {"close", "done"}
          /\ ret = "false"
          /\ calls[Len(calls)] = failedAt
    /\ (pc = "done" /\ failedAt = "email") =>
          /\ ~InCalls("captcha")
          /\ ~InCalls("save")
          /\ pollLog = <<>>
          /\ ~RowWrittenThisRun
          /\ Released

\* C4, as stated: a run that persisted a record has retrieved a verification
\* code through the mail poller earlier in the run.
C4_CodeRetrievedBeforeRecord ==
    RowWrittenThisRun => (pollLog # <<>> /\ result # NoMatch)

\* C4, amended: a run that persisted a record has invoked exactly the phases
\* of start(), in their order, and has never called the mail poller: no code
\* was retrieved.
C4_RecordWithoutMailPoller ==
    RowWrittenThisRun =>
        /\ calls = Phases
        /\ mpc = "idle"
        /\ pollLog = <<>>
        /\ result = NoMatch

C4_Witness ==
    /\ pc = "done"
    /\ run = 1
    /\ RowWrittenThisRun
    /\ ret = "true"
    /\ captchaAttempts = 2

(***************************************************************************)
(* Properties of the mail pollers.                                         *)
(***************************************************************************)
Returned == mpc \in {"returned", "caller_done"}

\* The first poll in which the mailbox held a code; 0 if it never did.
FirstHeld ==
    LET S == {i \in 1..Len(pollLog) : pollLog[i].held # NoMatch} IN
    IF S = {} THEN 0 ELSE Least(S)

C6_NoneNotException ==
    /\ mpc # "raised"
    /\ \A i \in 1..Len(pollLog) : pollLog[i].err => pollLog[i].got = NoMatch
    /\ (Returned /\ \A i \in 1..Len(pollLog) : pollLog[i].got = NoMatch)
           => result = NoMatch
    /\ (mpc = "caller_done" /\ result = NoMatch)
           => (callerResult = "false" /\ typed = NoMatch)

C6_Witness ==
    /\ mpc = "caller_done"
    /\ backend = "imap"
    /\ maxRetries = 2
    /\ Len(pollLog) = 2
    /\ pollLog[1].err
    /\ pollLog[2].err
    /\ result = NoMatch
    /\ callerResult = "false"

\* C7, as stated: whichever the backend, a code is returned only after a
\* delete was issued for the message it was taken from.
C7_DeleteBeforeReturn ==
    (Returned /\ result # NoMatch) =>
        \E i \in 1..Len(delLog) : delLog[i].id = source

\* C8: _cleanup_mail issues at most 3 DELETE requests, all for the message the
\* code came from, and none after one answered 200; when all 3 fail the code
\* is returned all the same and nothing is raised.
C8_CleanupBounded ==
    /\ Len(delLog) <= CleanupMaxRetries
    /\ \A i \in 1..Len(delLog) :
          /\ delLog[i].id = source
          /\ i < Len(delLog) => delLog[i].resp # "200"
    /\ (backend = "http" /\ Returned /\ result # NoMatch) =>
          /\ Len(delLog) >= 1
          /\ Len(delLog) < CleanupMaxRetries
                => delLog[Len(delLog)].resp = "200"
    /\ (delLog # <<>> /\ ~Answered200(delLog)) =>
          /\ Len(delLog) = CleanupMaxRetries
          /\ mpc # "raised"
          /\ result = pollLog[Len(pollLog)].held
          /\ result # NoMatch

C8_Witness ==
    /\ mpc = "returned"
    /\ Len(delLog) = 3
    /\ delLog[1].resp = "500"
    /\ delLog[2].resp = "exc"
    /\ delLog[3].resp = "500"
    /\ result # NoMatch

(***************************************************************************)
(* Properties of the code extractor.                                       *)
(***************************************************************************)
Alnum == Letters \cup Digits

\* A run of exactly six digits starts at i, it is not part of a longer run of
\* characters of `joined`, and no letter, '@' or '.' stands just before it.
IsolatedRunAt(s, i, joined) ==
    /\ i + 5 <= Len(s)
    /\ \A k \in i..(i + 5) : s[k] \in Digits
    /\ i > 1 => s[i - 1] \notin (Digits \cup joined \cup Letters \cup {"@", "."})
    /\ i + 6 <= Len(s) => s[i + 6] \notin (Digits \cup joined)

LeftmostIsolatedRun(s, joined) ==
    LET S == {i \in 1..Len(s) : IsolatedRunAt(s, i, joined)} IN
    IF S = {} THEN NoMatch ELSE SubSeq(s, Least(S), Least(S) + 5)

\* C9, as stated: the extractor returns the leftmost run of exactly six digits
\* that is not part of a longer alphanumeric run and is not preceded by a
\* letter, '@' or '.', and no match when there is none.
C9_LeftmostAlnumIsolatedRun ==
    xpc = "done" => extracted = LeftmostIsolatedRun(body, Alnum)

\* C9, amended: the run must not be part of a longer run of word characters:
\* letters, digits and the underscore.
C9_LeftmostWordIsolatedRun ==
    xpc = "done" => extracted = LeftmostIsolatedRun(body, Alnum \cup {"_"})

C9_Witness ==
    /\ xpc = "done"
    /\ body = <<"_", "7", "2", "8", "1", "9", "3", " ",
                "4", "8", "2", "9", "1", "3">>
    /\ extracted = <<"4", "8", "2", "9", "1", "3">>

(***************************************************************************)
(* Properties of generate_password().                                      *)
(***************************************************************************)
Has(s, chars) == \E i \in 1..Len(s) : s[i] \in chars

\* C10: a returned password has 12 characters, among them a lowercase letter,
\* an uppercase letter, a digit and one of '@#$%', and no other character.
C10_PasswordComposition ==
    gpc = "done" =>
        /\ Len(pw) = 12
        /\ Has(pw, lowercase)
        /\ Has(pw, uppercase)
        /\ Has(pw, Digits)
        /\ Has(pw, {"@", "#", "$", "%"})
        /\ \A i \in 1..Len(pw) :
              pw[i] \in lowercase \cup uppercase \cup Digits
                          \cup {"@", "#", "$", "%"}

C10_Witness ==
    /\ gpc = "done"
    /\ pw[1] = "#"
    /\ Cardinality({i \in 1..Len(pw) : pw[i] \in Digits}) = 1
    /\ Cardinality({i \in 1..Len(pw) : pw[i] \in lowercase}) = 1


\* How many '@' a string holds.
AtCount(s) == Cardinality({i \in 1..Len(s) : s[i] = "@"})

\* The part of a returned address after its first UsernameLen + 1 characters.
DomainPart == SubSeq(address, UsernameLen + 2, Len(address))

\* s is t with some '@' put in front of it and some behind it.
PaddedWithAt(s, t) ==
    \E i \in 0..Len(s), j \in 0..Len(s) :
        /\ i + Len(t) + j = Len(s)
        /\ \A k \in 1..i : s[k] = "@"
        /\ SubSeq(s, i + 1, i + Len(t)) = t
        /\ \A k \in (i + Len(t) + 1)..Len(s) : s[k] = "@"

\* C11: whatever DOMAIN is configured, a returned address is 8 alphanumeric
\* characters, then '@', then the configured domain, and it holds exactly
\* one '@'.
C11_AddressShape ==
    epc = "done" =>
        /\ Len(address) > UsernameLen
        /\ \A i \in 1..UsernameLen : address[i] \in Alnum
        /\ address[UsernameLen + 1] = "@"
        /\ PaddedWithAt(configDomain, DomainPart)
        /\ AtCount(address) = 1

\* The places of the raw OCR output that hold a letter or a digit.
AlnumPlaces == {i \in 1..Len(ocrResult) : ocrResult[i] \in Alnum}

\* The k-th of them, counted from the left.
NthAlnumPlace(k) ==
    CHOOSE i \in AlnumPlaces : Cardinality({j \in AlnumPlaces : j <= i}) = k

\* C12: the filtered result is the letters and digits of the raw OCR output,
\* all of them, in their order, and nothing else; 'a1 B2#c3' gives 'a1B2c3'.
C12_FilterKeepsAlnumInOrder ==
    ocrStatus = "text" =>
        /\ Len(filtered_result) = Cardinality(AlnumPlaces)
        /\ \A k \in 1..Len(filtered_result) :
               filtered_result[k] = ocrResult[NthAlnumPlace(k)]
        /\ ocrResult = <<"a", "1", " ", "B", "2", "#", "c", "3">>
               => filtered_result = <<"a", "1", "B", "2", "c", "3">>

C12_Witness ==
    /\ ocrStatus = "text"
    /\ ocrResult = <<"a", "1", " ", "B", "2", "#", "c", "3">>
    /\ filtered_result = <<"a", "1", "B", "2", "c", "3">>
    /\ inputArg = filtered_result

\* The last round went through the named step.
InSteps(step) == \E i \in 1..Len(steps) : steps[i] = step

\* C13, as stated: every filtered OCR result, whatever its length, is handed
\* to _input_captcha in the round that produced it.
C13_EveryResultInput ==
    ocrStatus = "text" => InSteps("input") /\ inputArg = filtered_result

\* C13, amended: a filtered result that is not empty is never rejected for
\* its length or for lacking an uppercase letter: it is handed to
\* _input_captcha in the same round, it is the content of the field when the
\* input succeeds and what is submitted when the click succeeds too; the two
\* checks only log their warnings.  An empty filtered result is treated as a
\* failed recognition.
C13_NonEmptyResultInput ==
    /\ (ocrStatus = "text" /\ filtered_result # <<>>) =>
           /\ InSteps("input")
           /\ inputArg = filtered_result
           /\ InSteps("click") => field = filtered_result
           /\ submitted.done => submitted.text = filtered_result
           /\ ("length" \in warnings) <=> (Len(filtered_result) # ExpectedLen)
           /\ ("upper" \in warnings)
                <=> (\A i \in 1..Len(filtered_result) :
                         filtered_result[i] \notin uppercase)
    /\ (ocrStatus = "text" /\ filtered_result = <<>>) =>
           ~InSteps("input") /\ lastOutcome = "ocr_fail"

C13_Witness ==
    /\ ocrStatus = "text"
    /\ Len(filtered_result) \notin {0, ExpectedLen}
    /\ \A i \in 1..Len(filtered_result) : filtered_result[i] \notin uppercase
    /\ warnings = {"length", "upper"}
    /\ submitted = [done |-> TRUE, text |-> filtered_result]

\* The page check of the last round ran and answered.
Checked == InSteps("check") /\ lastOutcome # "exception"

\* C14: verify_captcha returns True only after a round whose page check saw
\* no visible error banner and a visible password field; a visible error
\* banner makes the round fail even with a visible password field, and a
\* check that saw neither makes it fail too; after a failed check the loop
\* is still running, so that another round follows.
C14_TrueOnlyAfterCleanCheck ==
    /\ vret = "true" =>
           lastOutcome = "verified" /\ Checked /\ ~domError /\ domPassword
    /\ (Checked /\ domError) =>
           lastOutcome = "check_fail" /\ vret = "none" /\ cpc = "loop"
    /\ (Checked /\ ~domError /\ ~domPassword) =>
           lastOutcome = "check_fail" /\ vret = "none" /\ cpc = "loop"

C14_Witness ==
    /\ Checked
    /\ domError
    /\ domPassword
    /\ lastOutcome = "check_fail"
    /\ cpc = "loop"

IsDataRow(row) == row.kind = "data"

DataRows == SelectSeq(accounts, IsDataRow)

\* The finished runs for which p holds of the log entry, and the k-th of them.
RunsWhere(p(_)) == {i \in 1..Len(runLog) : p(runLog[i])}

ReturnedTrue(entry) == entry.ret = "true"

WriteCompleted(entry) == entry.saveOutcome = "ok"

NthWrittenRun(k) ==
    CHOOSE i \in RunsWhere(WriteCompleted) :
        Cardinality({j \in RunsWhere(WriteCompleted) : j <= i}) = k

\* C16, as stated: after k runs for which start() returned True the file
\* holds exactly k data rows.
C16_RowPerSuccessfulRun ==
    pc = "done" => Len(DataRows) = Cardinality(RunsWhere(ReturnedTrue))

\* C16, amended: the file holds one data row for every run whose write in
\* _save_account_info completed, in run order, and no other data row: a
\* completed write appends its row and leaves the earlier rows alone, and a
\* run that returned True after a swallowed write failure adds none.
C16_RowPerCompletedWrite ==
    pc = "done" =>
        /\ Len(DataRows) = Cardinality(RunsWhere(WriteCompleted))
        /\ \A k \in 1..Len(DataRows) : DataRows[k].created_at = NthWrittenRun(k)
        /\ RunsWhere(WriteCompleted) \subseteq RunsWhere(ReturnedTrue)

C16_Witness ==
    /\ pc = "done"
    /\ Len(runLog) = 2
    /\ RunsWhere(WriteCompleted) = {1, 2}
    /\ Len(DataRows) = 2
    /\ DataRows[1].created_at = 1
    /\ DataRows[2].created_at = 2

\* C17: once saves have put a data row into the accounts file, the file
\* holds exactly one header row and it is the first row.
C17_OneHeaderFirst ==
    DataRows # <<>> =>
        /\ accounts[1] = HeaderRow
        /\ Cardinality({i \in 1..Len(accounts) : accounts[i] = HeaderRow}) = 1

\* C18: when the write inside _save_account_info fails, start() goes on to
\* "return True": the run ends with True and no phase counts as failed.
C18_WriteFailureSwallowed ==
    saveOutcome \notin {"none", "ok"} =>
        /\ ret = "true"
        /\ failedAt = "none"
        /\ pc \in {"close", "done"}

C18_Witness ==
    /\ pc = "done"
    /\ saveOutcome = "fail_after_open"
    /\ ret = "true"
    /\ ~RowWrittenThisRun

C20_StartReturnsBoolean ==
    /\ ret \in {"none", "true", "false"}
    /\ pc \in {"close", "done"} => ret \in {"true", "false"}
    /\ \A i \in 1..Len(runLog) : runLog[i].ret \in {"true", "false"}

C20_Witness ==
    /\ pc = "done"
    /\ runLog # <<>>
    /\ runLog[Len(runLog)].closeRaised
    /\ runLog[Len(runLog)].failedAt = "get_key"
    /\ runLog[Len(runLog)].ret = "false"


\* The data rows of accounts.csv that this run wrote.
RowsOfThisRun == SelectSeq(DataRows, LAMBDA row : row.created_at = run)

\* How often start() went through the generation of email and password in
\* this run.
Generations == Cardinality({i \in 1..Len(calls) : calls[i] = "prepare"})

\* In a run the email and the password are generated once; what is input
\* into the email field is that email, what is input into the password
\* field is that password, read from config.PASSWORD, and the record of the
\* run holds the two.
TypedAndSavedAsGenerated ==
    /\ Generations <= 1
    /\ (email # NoValue \/ password # NoValue) => Generations = 1
    /\ password # NoValue => configPassword = password
    /\ typedEmail # NoValue => typedEmail = email
    /\ typedPassword # NoValue => typedPassword = password
    /\ \A k \in 1..Len(RowsOfThisRun) :
           /\ RowsOfThisRun[k].email = email
           /\ RowsOfThisRun[k].password = password
           /\ RowsOfThisRun[k].email = typedEmail
           /\ RowsOfThisRun[k].password = typedPassword

\* Between their generation and the end of the run no step changes the
\* email or the password.
NeverChangedInRun ==
    (pc \notin {"prepare", "done"} /\ email # NoValue)
        => (email' = email /\ password' = password
              /\ configPassword' = configPassword)

\* C21: within one run the email and the password are each generated exactly
\* once and never changed afterwards, and the email typed, the password
\* typed (read from config.PASSWORD) and the email and password of the
\* persisted record are those generated values.
C21_CredentialsFixed ==
    []TypedAndSavedAsGenerated /\ [][NeverChangedInRun]_vars

C21_Witness ==
    /\ pc = "done"
    /\ ret = "true"
    /\ Len(RowsOfThisRun) = 1
    /\ typedEmail = email
    /\ typedPassword = password
    /\ RowsOfThisRun[1].password = typedPassword

\* C22: every fill of a form field clears the element before the new value
\* is input: each input() call on an element comes right after a clear()
\* call on the same element.
C22_ClearBeforeInput ==
    \A i \in 1..Len(elemCalls) :
        elemCalls[i].op = "input" =>
            /\ i > 1
            /\ elemCalls[i - 1] = [field |-> elemCalls[i].field, op |-> "clear"]

\* handle_password_input has been called.
PasswordInputCalled == pwCall.tried # <<>>

HttpPolls == IF backend = "http" THEN {pollLog[i] : i \in 1..Len(pollLog)} ELSE {}

\* C24: in one poll of the HTTP-API backend the content of at most one
\* message is fetched, the one at index 0 of the id list; a DELETE is issued
\* only for that message and only after a code was extracted from its body;
\* a message without an extractable code is never deleted.
C24_OnlyFirstFetchedDeletedOnCode ==
    \A poll \in HttpPolls :
        /\ Len(poll.fetched) <= 1
        /\ poll.fetched # <<>> =>
               (poll.listed # <<>> /\ poll.fetched[1] = poll.listed[1].id)
        /\ \A d \in 1..Len(poll.dels) :
               /\ poll.fetched # <<>>
               /\ poll.dels[d].id = poll.fetched[1]
               /\ poll.got # NoMatch
               /\ poll.got = SearchCode(poll.listed[1].body)
        /\ poll.got = NoMatch => poll.dels = <<>>

C24_Witness ==
    \E deleting \in HttpPolls, keeping \in HttpPolls :
        /\ Len(deleting.listed) = 2
        /\ deleting.dels # <<>>
        /\ Len(keeping.listed) >= 1
        /\ keeping.fetched # <<>>
        /\ ~keeping.err
        /\ keeping.got = NoMatch


\* C25: for every mail body the extractor of the HTTP-API backend and the
\* extractor of the IMAP backend give the same result: the same six-digit
\* code, or no match from both.
C25_ExtractorsAgree == xpc = "done" => extracted = imapExtracted


\* C26: two runs in one working directory share no mutable state: the temp
\* profile directory a run's browser is running on is the one that run made,
\* never removed or replaced by the other run, and the data row a run wrote
\* stays in accounts.csv.
C26_RunsDoNotInterfere ==
    /\ \A r \in inUse : profileDir = r
    /\ \A r \in written : \E i \in 1..Len(csvRows) : csvRows[i] = r


\* The keys-endpoint response of this run has an entry with the prefix.
ResponseHasPrefixedKey ==
    \E i \in 1..Len(keyData) : keyData[i].prefix = KeyPrefix

\* C27: the API key of every persisted record starts with 'tvly-', and key
\* extraction succeeds whenever the keys-endpoint response contains an entry
\* whose key has that prefix.
C27_PrefixedKeySavedAndFound ==
    /\ \A k \in 1..Len(DataRows) : DataRows[k].api_key.prefix = KeyPrefix
    /\ ResponseHasPrefixedKey =>
           (apiKey.prefix = KeyPrefix /\ failedAt # "get_key")


\* A setting is given and not blank.
IsSet(n) == env[n] # Unset /\ strip(env[n], " ") # <<>>

\* The settings whose int() conversion cannot fail.
IntsConvertible ==
    \A n \in {"BROWSER_WIDTH", "BROWSER_HEIGHT", "IMAP_PORT"} :
        env[n] = Unset \/ ~IntRaises(PyStr(env[n]))

\* The required settings of the selected mailbox backend.
BackendSettings ==
    IF env["TEMP_MAIL"] = NullMail
    THEN {"IMAP_SERVER", "IMAP_PORT", "IMAP_USER", "IMAP_PASS"}
    ELSE {"TEMP_MAIL"}

\* C28: the construction of Config succeeds when TEMP_MAIL is 'null' and
\* IMAP_SERVER, IMAP_PORT, IMAP_USER and IMAP_PASS are all set to non-empty
\* values (the browser settings being valid), and it raises ValueError from
\* check_config only when a required setting of the selected mailbox backend
\* (or the browser type) is missing or blank.
C28_ImapConfigAccepted ==
    kpc = "done" =>
        /\ ( /\ env["TEMP_MAIL"] = NullMail
             /\ \A n \in BackendSettings : IsSet(n)
             /\ env["BROWSER_TYPE"] = Unset \/ IsSet("BROWSER_TYPE")
             /\ IntsConvertible )
               => cfgOutcome[1] = "ok"
        /\ cfgOutcome[1] = "check" =>
               \E n \in BackendSettings \cup {"BROWSER_TYPE"} : ~IsSet(n)


\* A round has run the step.
Ran(step) == \E i \in 1..Len(steps) : steps[i] = step

\* C29: in every captcha round the steps run in the order image lookup, OCR,
\* text input, Continue click, success check, and a step runs only if every
\* earlier step of the round succeeded: no click in a round whose text input
\* failed, no success check in a round whose click failed.
C29_StepsInOrderAfterSuccess ==
    /\ steps \in { <<>>, <<"image">>, <<"image", "ocr">>,
                   <<"image", "ocr", "input">>,
                   <<"image", "ocr", "input", "click">>,
                   <<"image", "ocr", "input", "click", "check">> }
    /\ Ran("ocr") => lastOutcome # "no_image"
    /\ Ran("input") => (ocrStatus = "text" /\ IsTruthy(filtered_result))
    /\ Ran("click") => (lastOutcome # "input_fail" /\ field = filtered_result)
    /\ Ran("check") => (lastOutcome # "click_fail" /\ submitted.done)
    /\ lastOutcome = "input_fail" => (Ran("input") /\ ~submitted.done)
    /\ lastOutcome = "click_fail" => (Ran("click") /\ ~submitted.done)

C29_Witness ==
    /\ captcha_attempts = 2
    /\ lastOutcome = "click_fail"
    /\ steps = <<"image", "ocr", "input", "click">>
    /\ field # <<>>


\* The turns of the loop of EmailHandler.get_verification_code in this call:
\* each begins with SELECT on self.mail.
ImapPolls == IF backend = "imap" THEN {pollLog[i] : i \in 1..Len(pollLog)} ELSE {}

\* C30: EmailHandler.get_verification_code issues mailbox commands only on a
\* connection whose login succeeded: also in a call after a connect() that
\* failed, every turn of the loop runs on a logged-in connection.
C30_PollsOnlyWhenLoggedIn == \A poll \in ImapPolls : poll.conn = "auth"

====
